---- MODULE Spec2Model ----
(***************************************************************************)
(* The iptables routing-rule manager of nmproxy/router/iptables.go: the    *)
(* per-server rule tables (ingRules), the two iptables clients (ipv4 and   *)
(* ipv6) it drives, and the operations of iptablesManager.                 *)
(***************************************************************************)
EXTENDS Integers, Sequences, FiniteSets, TLC

VARIABLES
    ingRules,   \* iptablesManager.ingRules: server -> reference of its ruletable (0 = nil)
    heap,       \* the ruletable maps allocated so far, by reference
    fw,         \* the kernel's rules: family -> (<<table, chain>> -> rule specs in order)
    panicked,   \* a Go runtime panic has unwound an operation
    faulty,     \* whether calls to the iptables clients may fail for outside reasons
    nops,       \* operations invoked so far
    last,       \* the latest operation of a single caller: its arguments, error and iptables calls
    pc,         \* concurrent callers: position of each in its operation
    loc,        \* concurrent callers: the operation's arguments and fetched reference
    done,       \* concurrent callers: the operations each has returned from
    mux         \* iptablesManager.mux, where its holder is followed: 0 unlocked, else the caller

vars == <<ingRules, heap, fw, panicked, faulty, nops, last, pc, loc, done, mux>>

(***************************************************************************)
(* Bounds of the model                                                     *)
(***************************************************************************)
MaxOps == 2        \* operations a single caller invokes in one behaviour
MaxConcOps == 3    \* operations the concurrent callers invoke in one behaviour

(***************************************************************************)
(* Constants of the source                                                 *)
(***************************************************************************)
ipv6 == "ipv6"
ipv4 == "ipv4"
defaultIpTable == "filter"
netmakerFilterChain == "netmakerfilter"
defaultNatTable == "nat"
netmakerNatChain == "netmakernat"
iptableFWDChain == "FORWARD"
nattablePRTChain == "POSTROUTING"
ingressTable == "ingress"

\* ncutils.GetInterfaceName()
InterfaceName == "netmaker"

filterNmJumpRules ==
    << [rule |-> <<"-i", InterfaceName, "-j", netmakerFilterChain>>,
        table |-> defaultIpTable, chain |-> iptableFWDChain],
       [rule |-> <<"-i", InterfaceName, "-j", "DROP">>,
        table |-> defaultIpTable, chain |-> netmakerFilterChain],
       [rule |-> <<"-i", InterfaceName, "-j", "RETURN">>,
        table |-> defaultIpTable, chain |-> netmakerFilterChain] >>

natNmJumpRules ==
    << [rule |-> <<"-o", InterfaceName, "-j", netmakerNatChain>>,
        table |-> defaultNatTable, chain |-> nattablePRTChain],
       [rule |-> <<"-j", "RETURN">>,
        table |-> defaultNatTable, chain |-> netmakerNatChain] >>

Fams == {ipv4, ipv6}

(***************************************************************************)
(* Go maps as functions on the set of their keys                           *)
(***************************************************************************)
EmptyMap == [k \in {} |-> k]

MapPut(m, k, v) == [x \in (DOMAIN m) \cup {k} |-> IF x = k THEN v ELSE m[x]]

MapDelete(m, k) == [x \in (DOMAIN m) \ {k} |-> m[x]]

\* the orders in which a range statement may visit the keys of a map
KeyOrders(S) ==
    {o \in [1..Cardinality(S) -> S] : \A i, j \in 1..Cardinality(S) : o[i] = o[j] => i = j}

(***************************************************************************)
(* Addresses.  The operations receive net.IPNet values and parse their     *)
(* String() form with netip.ParsePrefix; "<nil>" is what an IPNet without  *)
(* an address prints, which does not parse.                                *)
(***************************************************************************)
ClientAddr4 == "10.24.52.252/32"
ClientAddr6 == "fd00::252/128"
PeerAddr4 == "10.24.52.1/32"
OtherPeerAddr4 == "10.24.52.2/32"
PeerAddr6 == "fd00::1/128"
MappedAddr == "::ffff:10.24.52.9/128"
NilAddr == "<nil>"

\* netip.ParsePrefix: whether the text parses, and the form of the address
ParsePrefix(s) ==
    CASE s \in {ClientAddr4, PeerAddr4, OtherPeerAddr4} -> [err |-> FALSE, form |-> "4"]
      [] s \in {ClientAddr6, PeerAddr6} -> [err |-> FALSE, form |-> "6"]
      [] s = MappedAddr -> [err |-> FALSE, form |-> "4in6"]
      [] OTHER -> [err |-> TRUE, form |-> "none"]

\* prefix.Addr().Unmap().Is6()
UnmapIs6(prefix) == prefix.form = "6"

(***************************************************************************)
(* The iptables clients (github.com/coreos/go-iptables), one per family.   *)
(* f is one family's rules: a function from the existing <<table, chain>>  *)
(* to the chain's rule specs in order.  fail: the call fails for a reason  *)
(* outside the model.  Each returns the rules after the call and its error.*)
(***************************************************************************)
BuiltinChains == {<<defaultIpTable, iptableFWDChain>>, <<defaultNatTable, nattablePRTChain>>}

InsertAt(s, pos, e) == SubSeq(s, 1, pos - 1) \o <<e>> \o SubSeq(s, pos, Len(s))

RemoveAt(s, i) == SubSeq(s, 1, i - 1) \o SubSeq(s, i + 1, Len(s))

Occurrences(s, e) == Cardinality({i \in 1..Len(s) : s[i] = e})

FirstIndex(s, e) == CHOOSE i \in 1..Len(s) : s[i] = e /\ \A j \in 1..(i - 1) : s[j] # e

\* whether some rule of another chain of the table jumps to the chain
Referenced(f, table, chain) ==
    \E tc \in DOMAIN f : tc[1] = table /\ tc[2] # chain
        /\ \E i \in 1..Len(f[tc]) :
              /\ Len(f[tc][i]) >= 2
              /\ f[tc][i][Len(f[tc][i]) - 1] = "-j"
              /\ f[tc][i][Len(f[tc][i])] = chain

\* IPTables.Insert(table, chain, pos, rulespec...)
IptInsert(f, table, chain, pos, spec, fail) ==
    IF fail \/ <<table, chain>> \notin DOMAIN f \/ pos > Len(f[<<table, chain>>]) + 1
    THEN [f |-> f, err |-> TRUE]
    ELSE [f |-> [f EXCEPT ![<<table, chain>>] = InsertAt(@, pos, spec)], err |-> FALSE]

\* IPTables.Append(table, chain, rulespec...)
IptAppend(f, table, chain, spec, fail) ==
    IF fail \/ <<table, chain>> \notin DOMAIN f
    THEN [f |-> f, err |-> TRUE]
    ELSE [f |-> [f EXCEPT ![<<table, chain>>] = Append(@, spec)], err |-> FALSE]

\* IPTables.Exists(table, chain, rulespec...)
IptExists(f, table, chain, spec) ==
    /\ <<table, chain>> \in DOMAIN f
    /\ Occurrences(f[<<table, chain>>], spec) > 0

\* IPTables.DeleteIfExists: deletes the first matching rule; an absent rule is no error
IptDeleteIfExists(f, table, chain, spec, fail) ==
    IF fail THEN [f |-> f, err |-> TRUE]
    ELSE IF IptExists(f, table, chain, spec)
    THEN [f |-> [f EXCEPT ![<<table, chain>>] = RemoveAt(@, FirstIndex(@, spec))],
          err |-> FALSE]
    ELSE [f |-> f, err |-> FALSE]

\* IPTables.ClearAndDeleteChain: flushes the chain, then deletes it; an absent chain
\* is no error, a chain still jumped to is flushed and cannot be deleted
IptClearAndDeleteChain(f, table, chain, fail) ==
    IF fail THEN [f |-> f, err |-> TRUE]
    ELSE IF <<table, chain>> \notin DOMAIN f THEN [f |-> f, err |-> FALSE]
    ELSE IF Referenced(f, table, chain)
    THEN [f |-> [f EXCEPT ![<<table, chain>>] = <<>>], err |-> TRUE]
    ELSE [f |-> [tc \in (DOMAIN f) \ {<<table, chain>>} |-> f[tc]], err |-> FALSE]

\* IPTables.NewChain(table, chain)
IptNewChain(f, table, chain, fail) ==
    IF fail \/ <<table, chain>> \in DOMAIN f
    THEN [f |-> f, err |-> TRUE]
    ELSE [f |-> [tc \in (DOMAIN f) \cup {<<table, chain>>} |->
                    IF tc = <<table, chain>> THEN <<>> ELSE f[tc]],
          err |-> FALSE]

(***************************************************************************)
(* One call of an operation to a client.  st = [fw, calls]: the rules of   *)
(* both families and the calls the operation has issued so far; the call   *)
(* numbered failIdx in the operation fails (0: none does).                 *)
(***************************************************************************)
Call(kind, fam, ri, err) == [kind |-> kind, fam |-> fam, rule |-> ri, err |-> err]

Issued(st, fam, kind, ri, r) ==
    [fw |-> [st.fw EXCEPT ![fam] = r.f],
     calls |-> Append(st.calls, Call(kind, fam, ri, r.err))]

Fails(st, failIdx) == Len(st.calls) + 1 = failIdx

\* an Insert that puts the rule at the end of the chain
DoInsertAtEnd(st, fam, ri, failIdx) ==
    Issued(st, fam, "Insert", ri,
           IptAppend(st.fw[fam], ri.table, ri.chain, ri.rule, Fails(st, failIdx)))


DoInsert(st, fam, ri, failIdx) ==
    Issued(st, fam, "Insert", ri,
           IptInsert(st.fw[fam], ri.table, ri.chain, 1, ri.rule, Fails(st, failIdx)))

DoAppend(st, fam, ri, failIdx) ==
    Issued(st, fam, "Append", ri,
           IptAppend(st.fw[fam], ri.table, ri.chain, ri.rule, Fails(st, failIdx)))

DoDeleteIfExists(st, fam, ri, failIdx) ==
    Issued(st, fam, "DeleteIfExists", ri,
           IptDeleteIfExists(st.fw[fam], ri.table, ri.chain, ri.rule, Fails(st, failIdx)))

DoClearAndDeleteChain(st, fam, table, chain, failIdx) ==
    Issued(st, fam, "ClearAndDeleteChain", [rule |-> <<>>, table |-> table, chain |-> chain],
           IptClearAndDeleteChain(st.fw[fam], table, chain, Fails(st, failIdx)))

LastErr(st) == st.calls[Len(st.calls)].err

DoListChains(st, fam, table, failIdx) ==
    Issued(st, fam, "ListChains", [rule |-> <<>>, table |-> table, chain |-> ""],
           [f |-> st.fw[fam], err |-> Fails(st, failIdx)])

DoNewChain(st, fam, table, chain, failIdx) ==
    Issued(st, fam, "NewChain", [rule |-> <<>>, table |-> table, chain |-> chain],
           IptNewChain(st.fw[fam], table, chain, Fails(st, failIdx)))

(***************************************************************************)
(* Chain bootstrap                                                         *)
(***************************************************************************)
\* createChain: lists the table's chains and creates newChain unless it is among them;
\* returns the state and whether it returned an error
createChain(st, fam, table, newChain, failIdx) ==
    LET listed == DoListChains(st, fam, table, failIdx)
    IN IF LastErr(listed) THEN [st |-> listed, err |-> TRUE]
       ELSE IF <<table, newChain>> \in DOMAIN listed.fw[fam]
       THEN [st |-> listed, err |-> FALSE]
       ELSE LET made == DoNewChain(listed, fam, table, newChain, failIdx)
            IN [st |-> made, err |-> LastErr(made)]

\* the loops of addJumpRules: each rule is appended through the ipv4 client, then
\* through the ipv6 client; an error is logged and the loop goes on
RECURSIVE appendJumpRules(_, _, _, _)
appendJumpRules(st, rules, i, failIdx) ==
    IF i > Len(rules) THEN st
    ELSE appendJumpRules(
            DoAppend(DoAppend(st, ipv4, rules[i], failIdx), ipv6, rules[i], failIdx),
            rules, i + 1, failIdx)

addJumpRules(st, failIdx) ==
    appendJumpRules(appendJumpRules(st, filterNmJumpRules, 1, failIdx),
                    natNmJumpRules, 1, failIdx)

\* the loops of removeJumpRules, likewise with DeleteIfExists
RECURSIVE deleteJumpRules(_, _, _, _)
deleteJumpRules(st, rules, i, failIdx) ==
    IF i > Len(rules) THEN st
    ELSE deleteJumpRules(
            DoDeleteIfExists(DoDeleteIfExists(st, ipv4, rules[i], failIdx),
                             ipv6, rules[i], failIdx),
            rules, i + 1, failIdx)

removeJumpRules(st, failIdx) ==
    deleteJumpRules(deleteJumpRules(st, filterNmJumpRules, 1, failIdx),
                    natNmJumpRules, 1, failIdx)

\* cleanup: clears and deletes the chain in both families; errors are logged
cleanup(st, table, chain, failIdx) ==
    DoClearAndDeleteChain(DoClearAndDeleteChain(st, ipv4, table, chain, failIdx),
                          ipv6, table, chain, failIdx)

\* the shared part without its removeJumpRules
CleanupWithoutRemoveJumpRules(st, failIdx) ==
    cleanup(cleanup(st, defaultIpTable, netmakerFilterChain, failIdx),
            defaultNatTable, netmakerNatChain, failIdx)

\* the part FlushAll and CreateChains share
RemoveAndCleanup(st, failIdx) ==
    cleanup(cleanup(removeJumpRules(st, failIdx),
                    defaultIpTable, netmakerFilterChain, failIdx),
            defaultNatTable, netmakerNatChain, failIdx)

Result(st, err) == [fw |-> st.fw, calls |-> st.calls, err |-> err]

\* CreateChains under the lock: the result's err is "" for nil
CreateChainsBody(f, failIdx) ==
    LET s0 == RemoveAndCleanup([fw |-> f, calls |-> <<>>], failIdx)
        c1 == createChain(s0, ipv4, defaultIpTable, netmakerFilterChain, failIdx)
        c2 == createChain(c1.st, ipv4, defaultNatTable, netmakerNatChain, failIdx)
        c3 == createChain(c2.st, ipv6, defaultIpTable, netmakerFilterChain, failIdx)
        c4 == createChain(c3.st, ipv6, defaultNatTable, netmakerNatChain, failIdx)
    IN IF c1.err THEN Result(c1.st, "chain")
       ELSE IF c2.err THEN Result(c2.st, "chain")
       ELSE IF c3.err THEN Result(c3.st, "chain")
       ELSE IF c4.err THEN Result(c4.st, "chain")
       ELSE Result(addJumpRules(c4.st, failIdx), "")

\* FlushAll under the lock
FlushAllBody(f, failIdx) == Result(RemoveAndCleanup([fw |-> f, calls |-> <<>>], failIdx), "")

(***************************************************************************)
(* The rule table.  A ruletable maps a client key to its rulesCfg          *)
(* [isIpv4, rulesMap]; rulesMap maps a peer key to its list of ruleInfo.   *)
(* FetchRuleTable returns the server's map itself (a Go map is a           *)
(* reference), or a new map that nothing stores when the server has none.  *)
(***************************************************************************)
\* FetchRuleTable(server, ingressTable): the reference returned, and the heap
FetchRuleTable(ing, h, server) ==
    IF ing[server] = 0
    THEN [ref |-> Len(h) + 1, heap |-> Append(h, EmptyMap)]
    ELSE [ref |-> ing[server], heap |-> h]

\* SaveRules(server, ingressTable, rules)
SaveRules(ing, server, ref) == [ing EXCEPT ![server] = ref]

\* the table stored for the server, as a caller reading it now would see it
StoredTable(ing, h, server) == IF ing[server] = 0 THEN EmptyMap ELSE h[ing[server]]

\* iptablesClient := i.ipv4Client; if !isIpv4 { iptablesClient = i.ipv6Client }
ClientFor(isIpv4) == IF isIpv4 THEN ipv4 ELSE ipv6

BodyResult(h, st, err, panic) ==
    [heap |-> h, fw |-> st.fw, calls |-> st.calls, err |-> err, panic |-> panic]

\* the rule AddIngressRoutingRule builds
AcceptToRule(peerAddr) ==
    [rule |-> <<"-d", peerAddr, "-j", "ACCEPT">>,
     chain |-> netmakerFilterChain, table |-> defaultIpTable]

\* AddIngressRoutingRule under the lock.  Assigning into the rulesMap of a client
\* the table has no entry for assigns into a nil map: a runtime panic.
AddIngressBody(h, f, ref, extPeerKey, peerInfo, failIdx) ==
    LET prefix == ParsePrefix(peerInfo.PeerAddr)
        st0 == [fw |-> f, calls |-> <<>>]
        fam == ClientFor(~UnmapIs6(prefix))
        ri == AcceptToRule(peerInfo.PeerAddr)
        st1 == DoInsert(st0, fam, ri, failIdx)
        t == h[ref]
    IN IF prefix.err THEN BodyResult(h, st0, "parse", FALSE)
       ELSE IF extPeerKey \notin DOMAIN t THEN BodyResult(h, st1, "panic", TRUE)
       ELSE BodyResult(
              [h EXCEPT ![ref] = [t EXCEPT ![extPeerKey].rulesMap =
                                     MapPut(@, peerInfo.PeerKey, <<ri>>)]],
              st1, "", FALSE)

\* the filter rule InsertIngressRoutingRules builds for an allowed peer
AcceptFromToRule(extAddr, peerAddr) ==
    [rule |-> <<"-s", extAddr, "-d", peerAddr, "-j", "ACCEPT">>,
     chain |-> netmakerFilterChain, table |-> defaultIpTable]

\* the two NAT rules InsertIngressRoutingRules builds
MasqSrcRule(extAddr) ==
    [rule |-> <<"-s", extAddr, "-o", "netmaker", "-j", "MASQUERADE">>,
     table |-> defaultNatTable, chain |-> netmakerNatChain]

MasqDstRule(extAddr) ==
    [rule |-> <<"-d", extAddr, "-o", "netmaker", "-j", "MASQUERADE">>,
     table |-> defaultNatTable, chain |-> netmakerNatChain]

\* the peer loop of InsertIngressRoutingRules; ps = [st, rulesMap]
\* the peer loop without its "if !peerInfo.Allow { continue }"
RECURSIVE PeerLoopWithoutAllowCheck(_, _, _, _, _, _)
PeerLoopWithoutAllowCheck(ps, fam, extAddr, peers, i, failIdx) ==
    IF i > Len(peers) THEN ps
    ELSE LET ri == AcceptFromToRule(extAddr, peers[i].PeerAddr)
         IN PeerLoopWithoutAllowCheck(
                [st |-> DoInsert(ps.st, fam, ri, failIdx),
                 rulesMap |-> MapPut(ps.rulesMap, peers[i].PeerKey, <<ri>>)],
                fam, extAddr, peers, i + 1, failIdx)

\* the peer loop returning at the first Insert that fails
RECURSIVE PeerLoopUntilError(_, _, _, _, _, _)
PeerLoopUntilError(ps, fam, extAddr, peers, i, failIdx) ==
    IF i > Len(peers) THEN ps
    ELSE IF ~peers[i].Allow THEN PeerLoopUntilError(ps, fam, extAddr, peers, i + 1, failIdx)
    ELSE LET ri == AcceptFromToRule(extAddr, peers[i].PeerAddr)
             st1 == DoInsert(ps.st, fam, ri, failIdx)
         IN IF LastErr(st1) THEN [st |-> st1, rulesMap |-> ps.rulesMap]
            ELSE PeerLoopUntilError(
                    [st |-> st1, rulesMap |-> MapPut(ps.rulesMap, peers[i].PeerKey, <<ri>>)],
                    fam, extAddr, peers, i + 1, failIdx)


RECURSIVE PeerLoop(_, _, _, _, _, _)
PeerLoop(ps, fam, extAddr, peers, i, failIdx) ==
    IF i > Len(peers) THEN ps
    ELSE IF ~peers[i].Allow THEN PeerLoop(ps, fam, extAddr, peers, i + 1, failIdx)
    ELSE LET ri == AcceptFromToRule(extAddr, peers[i].PeerAddr)
         IN PeerLoop([st |-> DoInsert(ps.st, fam, ri, failIdx),
                      rulesMap |-> MapPut(ps.rulesMap, peers[i].PeerKey, <<ri>>)],
                     fam, extAddr, peers, i + 1, failIdx)

\* the NAT part of InsertIngressRoutingRules
Masquerade(ps, fam, extinfo, failIdx) ==
    LET src == MasqSrcRule(extinfo.ExtPeerAddr)
        dst == MasqDstRule(extinfo.ExtPeerAddr)
        st1 == DoInsert(ps.st, fam, src, failIdx)
        routes == IF extinfo.ExtPeerKey \in DOMAIN ps.rulesMap
                  THEN ps.rulesMap[extinfo.ExtPeerKey] ELSE <<>>
        st2 == DoInsert(st1, fam, dst, failIdx)
    IN [st |-> st2,
        rulesMap |-> MapPut(ps.rulesMap, extinfo.ExtPeerKey, routes \o <<src, dst>>)]

\* InsertIngressRoutingRules replacing the client's entry before it parses the address
InsertIngressBodyEntryFirst(h, f, ref, extinfo, failIdx) ==
    LET prefix == ParsePrefix(extinfo.ExtPeerAddr)
        st0 == [fw |-> f, calls |-> <<>>]
        isIpv4 == ~UnmapIs6(prefix)
        fam == ClientFor(isIpv4)
        looped == PeerLoop([st |-> st0, rulesMap |-> EmptyMap], fam,
                           extinfo.ExtPeerAddr, extinfo.Peers, 1, failIdx)
        ps == IF extinfo.Masquerade THEN Masquerade(looped, fam, extinfo, failIdx)
              ELSE looped
    IN IF prefix.err
       THEN BodyResult([h EXCEPT ![ref] = MapPut(@, extinfo.ExtPeerKey,
                                                 [isIpv4 |-> TRUE, rulesMap |-> EmptyMap])],
                       st0, "parse", FALSE)
       ELSE BodyResult(
              [h EXCEPT ![ref] = MapPut(@, extinfo.ExtPeerKey,
                                        [isIpv4 |-> isIpv4, rulesMap |-> ps.rulesMap])],
              ps.st, "", FALSE)

\* InsertIngressRoutingRules under the lock
InsertIngressBody(h, f, ref, extinfo, failIdx) ==
    LET prefix == ParsePrefix(extinfo.ExtPeerAddr)
        st0 == [fw |-> f, calls |-> <<>>]
        isIpv4 == ~UnmapIs6(prefix)
        fam == ClientFor(isIpv4)
        looped == PeerLoop([st |-> st0, rulesMap |-> EmptyMap], fam,
                           extinfo.ExtPeerAddr, extinfo.Peers, 1, failIdx)
        ps == IF extinfo.Masquerade THEN Masquerade(looped, fam, extinfo, failIdx)
              ELSE looped
    IN IF prefix.err THEN BodyResult(h, st0, "parse", FALSE)
       ELSE BodyResult(
              [h EXCEPT ![ref] = MapPut(@, extinfo.ExtPeerKey,
                                        [isIpv4 |-> isIpv4, rulesMap |-> ps.rulesMap])],
              ps.st, "", FALSE)

\* the rules of the groups of a rulesMap, the groups visited in the given order
RECURSIVE RulesInOrder(_, _, _)
RulesInOrder(rulesMap, order, i) ==
    IF i > Len(order) THEN <<>>
    ELSE rulesMap[order[i]] \o RulesInOrder(rulesMap, order, i + 1)

\* a removal loop that logs the error of DeleteIfExists and goes on
RECURSIVE DeleteLoopPastErrors(_, _, _, _, _)
DeleteLoopPastErrors(st, fam, rules, i, failIdx) ==
    IF i > Len(rules) THEN [st |-> st, err |-> FALSE]
    ELSE DeleteLoopPastErrors(DoDeleteIfExists(st, fam, rules[i], failIdx),
                              fam, rules, i + 1, failIdx)

\* a removal loop: DeleteIfExists rule by rule, returning at the first error
RECURSIVE DeleteLoop(_, _, _, _, _)
DeleteLoop(st, fam, rules, i, failIdx) ==
    IF i > Len(rules) THEN [st |-> st, err |-> FALSE]
    ELSE LET st1 == DoDeleteIfExists(st, fam, rules[i], failIdx)
         IN IF LastErr(st1) THEN [st |-> st1, err |-> TRUE]
            ELSE DeleteLoop(st1, fam, rules, i + 1, failIdx)

\* the table after RemoveRoutingRules has removed the client's rules
RemoveEntry(t, peerKey) == MapDelete(t, peerKey)

\* RemoveRoutingRules returning nil for a client the table has no entry for
RemoveRoutingBodyWithoutNotFound(h, f, ref, peerKey, order, failIdx) ==
    LET t == h[ref]
        st0 == [fw |-> f, calls |-> <<>>]
    IN IF peerKey \notin DOMAIN t THEN BodyResult(h, st0, "", FALSE)
       ELSE LET fam == ClientFor(t[peerKey].isIpv4)
                d == DeleteLoop(st0, fam, RulesInOrder(t[peerKey].rulesMap, order, 1),
                                1, failIdx)
            IN IF d.err THEN BodyResult(h, d.st, "remove failed", FALSE)
               ELSE BodyResult([h EXCEPT ![ref] = RemoveEntry(t, peerKey)], d.st, "", FALSE)

\* RemoveRoutingRules under the lock; order: the order the range visits the groups in
RemoveRoutingBody(h, f, ref, peerKey, order, failIdx) ==
    LET t == h[ref]
        st0 == [fw |-> f, calls |-> <<>>]
    IN IF peerKey \notin DOMAIN t THEN BodyResult(h, st0, "peer not found", FALSE)
       ELSE LET fam == ClientFor(t[peerKey].isIpv4)
                d == DeleteLoop(st0, fam, RulesInOrder(t[peerKey].rulesMap, order, 1),
                                1, failIdx)
            IN IF d.err THEN BodyResult(h, d.st, "remove failed", FALSE)
               ELSE BodyResult([h EXCEPT ![ref] = RemoveEntry(t, peerKey)], d.st, "", FALSE)

\* DeleteRoutingRule under the lock
DeleteRoutingBody(h, f, ref, srcPeerKey, dstPeerKey, failIdx) ==
    LET t == h[ref]
        st0 == [fw |-> f, calls |-> <<>>]
    IN IF srcPeerKey \notin DOMAIN t THEN BodyResult(h, st0, "peer not found", FALSE)
       ELSE IF dstPeerKey \notin DOMAIN t[srcPeerKey].rulesMap
       THEN BodyResult(h, st0, "rules not found", FALSE)
       ELSE LET fam == ClientFor(t[srcPeerKey].isIpv4)
                d == DeleteLoop(st0, fam, t[srcPeerKey].rulesMap[dstPeerKey], 1, failIdx)
            IN IF d.err THEN BodyResult(h, d.st, "remove failed", FALSE)
               ELSE BodyResult(h, d.st, "", FALSE)

\* CleanRoutingRules: the removals of one client's rules, its groups ranged over
\* in any order, each through the client its isIpv4 selects
ClientRemovals(rulesCfg) ==
    { [i \in 1..Len(RulesInOrder(rulesCfg.rulesMap, o, 1)) |->
          <<ClientFor(rulesCfg.isIpv4), RulesInOrder(rulesCfg.rulesMap, o, 1)[i]>>] :
      o \in KeyOrders(DOMAIN rulesCfg.rulesMap) }

RECURSIVE TableRemovals(_, _, _)
TableRemovals(t, order, i) ==
    IF i > Len(order) THEN {<<>>}
    ELSE { a \o b : a \in ClientRemovals(t[order[i]]), b \in TableRemovals(t, order, i + 1) }

\* the sequences of removals CleanRoutingRules may issue for the table
CleanOrders(t) == UNION { TableRemovals(t, o, 1) : o \in KeyOrders(DOMAIN t) }

\* its inner loop: the error DeleteIfExists returns is dropped
RECURSIVE DeleteAll(_, _, _, _)
DeleteAll(st, dels, i, failIdx) ==
    IF i > Len(dels) THEN st
    ELSE DeleteAll(DoDeleteIfExists(st, dels[i][1], dels[i][2], failIdx), dels, i + 1, failIdx)

\* CleanRoutingRules under the lock: the table itself is left as it is
CleanRoutingBody(f, dels, failIdx) ==
    Result(DeleteAll([fw |-> f, calls |-> <<>>], dels, 1, failIdx), "")

\* the orders in which RemoveRoutingRules may visit the client's groups
RangeOrders(t, peerKey) ==
    IF peerKey \in DOMAIN t THEN KeyOrders(DOMAIN t[peerKey].rulesMap) ELSE {<<>>}

(***************************************************************************)
(* Inputs                                                                  *)
(***************************************************************************)
Servers == {"s1", "s2"}
ClientKeys == {"c1", "c2"}
PeerKeys == {"p1", "p2", "c1"}

\* the (server, client) pairs operations are invoked for
Targets == {t \in Servers \X ClientKeys : t[1] = "s1" \/ t[2] = "c1"}

PeerInfo(key, addr, allow) == [PeerKey |-> key, PeerAddr |-> addr, Allow |-> allow]

\* the peer lists of a client session: two allowed peers, one key twice, a peer
\* with the key "c1" beside another, an allowed peer beside a denied one with the
\* key "c1", a key allowed at one address and denied at another, and the key "c1"
\* twice
TwoAllowed == << PeerInfo("p1", PeerAddr4, TRUE), PeerInfo("p2", OtherPeerAddr4, TRUE) >>

PeerLists ==
    { TwoAllowed,
      << PeerInfo("p1", PeerAddr4, TRUE), PeerInfo("p1", PeerAddr4, TRUE) >>,
      << PeerInfo("c1", OtherPeerAddr4, TRUE), PeerInfo("p1", PeerAddr4, TRUE) >>,
      << PeerInfo("p1", PeerAddr4, TRUE), PeerInfo("c1", OtherPeerAddr4, FALSE) >>,
      << PeerInfo("p2", PeerAddr4, TRUE), PeerInfo("p2", OtherPeerAddr4, FALSE) >>,
      << PeerInfo("c1", PeerAddr4, TRUE), PeerInfo("c1", OtherPeerAddr4, TRUE) >> }

ExtInfo(key, addr, masq, peers) ==
    [ExtPeerKey |-> key, ExtPeerAddr |-> addr, Masquerade |-> masq, Peers |-> peers]

\* the sessions InsertIngressRoutingRules is invoked with: an IPv4 client with each
\* peer list, with and without masquerade; an IPv6 client; a client without address
ExtInfos(key) ==
    { ExtInfo(key, ClientAddr4, m, ps) : m \in BOOLEAN, ps \in PeerLists }
        \cup { ExtInfo(key, a, TRUE, TwoAllowed) : a \in {ClientAddr6, NilAddr} }

\* the peers AddIngressRoutingRule is invoked with
AddedPeers == { PeerInfo("p1", a, TRUE) : a \in {PeerAddr4, PeerAddr6, NilAddr} }

MaxFailIdx == 3

\* which call of an operation fails: none unless the behaviour is a faulty one
FailChoices == IF faulty THEN 0..MaxFailIdx ELSE {0}

(***************************************************************************)
(* Initial states.  No server has a table; the kernel holds either nothing *)
(* of the program or what an earlier run's CreateChains left.              *)
(***************************************************************************)
NoRules == [tc \in BuiltinChains |-> <<>>]

FreshFirewall == [fam \in Fams |-> NoRules]

BootstrappedFirewall == CreateChainsBody(FreshFirewall, 0).fw

\* the record of an operation: what it was invoked with, the operation the caller
\* invoked before it, the table reference it fetched, and what it returned
NoOp == [op |-> "", server |-> "", client |-> "", peer |-> "", extinfo |-> <<>>,
         after |-> "", ref |-> 0, err |-> "", calls |-> <<>>, panic |-> FALSE]

Procs == {1, 2}

InitCommon ==
    /\ ingRules = [s \in Servers |-> 0]
    /\ heap = <<>>
    /\ fw \in {FreshFirewall, BootstrappedFirewall}
    /\ panicked = FALSE
    /\ nops = 0
    /\ last = NoOp
    /\ pc = [p \in Procs |-> "idle"]
    /\ loc = [p \in Procs |-> NoOp]
    /\ done = [p \in Procs |-> <<>>]
    /\ mux = 0

Init == InitCommon /\ faulty = FALSE

(***************************************************************************)
(* A single caller: each operation runs from its call to its return,       *)
(* deferred SaveRules included.                                            *)
(***************************************************************************)
CanInvoke == ~panicked /\ nops < MaxOps

\* calls fail for outside reasons in at most one operation of a behaviour: once an
\* operation has seen a call fail, none fails any more
StillFaulty(calls) == faulty /\ \A i \in 1..Len(calls) : ~calls[i].err

\* an operation on the server's table returns: r is what its locked part did
\* with the table fetched, and the deferred SaveRules stores the fetched reference
Returned(op, server, fetched, r) ==
    /\ heap' = r.heap
    /\ fw' = r.fw
    /\ ingRules' = SaveRules(ingRules, server, fetched.ref)
    /\ panicked' = r.panic
    /\ last' = [op EXCEPT !.after = last.op, !.ref = fetched.ref, !.err = r.err,
                           !.calls = r.calls, !.panic = r.panic]
    /\ nops' = nops + 1
    /\ faulty' = StillFaulty(r.calls)
    /\ UNCHANGED <<pc, loc, done, mux>>

\* an operation that touches no table returns
ReturnedChains(op, r) ==
    /\ fw' = r.fw
    /\ last' = [op EXCEPT !.after = last.op, !.err = r.err, !.calls = r.calls]
    /\ nops' = nops + 1
    /\ faulty' = StillFaulty(r.calls)
    /\ UNCHANGED <<ingRules, heap, panicked, pc, loc, done, mux>>

CreateChains ==
    /\ CanInvoke
    /\ \E failIdx \in FailChoices :
          ReturnedChains([NoOp EXCEPT !.op = "CreateChains"], CreateChainsBody(fw, failIdx))

FlushAll ==
    /\ CanInvoke
    /\ \E failIdx \in FailChoices :
          ReturnedChains([NoOp EXCEPT !.op = "FlushAll"], FlushAllBody(fw, failIdx))

\* the table is fetched, and a new one made for a server without is dropped
CleanRoutingRules ==
    /\ CanInvoke
    /\ \E server \in Servers, failIdx \in FailChoices :
          LET fetched == FetchRuleTable(ingRules, heap, server)
          IN \E dels \in CleanOrders(fetched.heap[fetched.ref]) :
                ReturnedChains([NoOp EXCEPT !.op = "CleanRoutingRules", !.server = server],
                               CleanRoutingBody(fw, dels, failIdx))

AddIngressRoutingRule ==
    /\ CanInvoke
    /\ \E t \in Targets, peerInfo \in AddedPeers, failIdx \in FailChoices :
          LET fetched == FetchRuleTable(ingRules, heap, t[1])
          IN Returned([NoOp EXCEPT !.op = "AddIngressRoutingRule", !.server = t[1],
                                   !.client = t[2], !.peer = peerInfo.PeerKey,
                                   !.extinfo = peerInfo],
                      t[1], fetched,
                      AddIngressBody(fetched.heap, fw, fetched.ref, t[2], peerInfo, failIdx))

InsertIngressRoutingRules ==
    /\ CanInvoke
    /\ \E t \in Targets, failIdx \in FailChoices :
        \E extinfo \in ExtInfos(t[2]) :
          LET fetched == FetchRuleTable(ingRules, heap, t[1])
          IN Returned([NoOp EXCEPT !.op = "InsertIngressRoutingRules", !.server = t[1],
                                   !.client = t[2], !.extinfo = extinfo],
                      t[1], fetched,
                      InsertIngressBody(fetched.heap, fw, fetched.ref, extinfo, failIdx))

RemoveRoutingRules ==
    /\ CanInvoke
    /\ \E t \in Targets, failIdx \in FailChoices :
          LET fetched == FetchRuleTable(ingRules, heap, t[1])
          IN \E order \in RangeOrders(fetched.heap[fetched.ref], t[2]) :
                Returned([NoOp EXCEPT !.op = "RemoveRoutingRules", !.server = t[1],
                                      !.client = t[2]],
                         t[1], fetched,
                         RemoveRoutingBody(fetched.heap, fw, fetched.ref, t[2], order, failIdx))

DeleteRoutingRule ==
    /\ CanInvoke
    /\ \E t \in Targets, dst \in PeerKeys, failIdx \in FailChoices :
          LET fetched == FetchRuleTable(ingRules, heap, t[1])
          IN Returned([NoOp EXCEPT !.op = "DeleteRoutingRule", !.server = t[1],
                                   !.client = t[2], !.peer = dst],
                      t[1], fetched,
                      DeleteRoutingBody(fetched.heap, fw, fetched.ref, t[2], dst, failIdx))

Next ==
    \/ CreateChains
    \/ FlushAll
    \/ CleanRoutingRules
    \/ AddIngressRoutingRule
    \/ InsertIngressRoutingRules
    \/ RemoveRoutingRules
    \/ DeleteRoutingRule

Spec == Init /\ [][Next]_vars

(***************************************************************************)
(* The same caller when a call to the iptables clients may fail: in one    *)
(* operation of the behaviour the call numbered by the operation's failIdx *)
(* returns an error and leaves the kernel as it was.                       *)
(***************************************************************************)
InitFault == InitCommon /\ faulty = TRUE

SpecFault == InitFault /\ [][Next]_vars

(***************************************************************************)
(* The same caller, starting where CreateChains and then                   *)
(* InsertIngressRoutingRules for the clients c1 and c2 of server s1, each  *)
(* with the same address and the same two allowed peers, have returned,    *)
(* and invoking the operations that change the tables only: the chains are *)
(* neither flushed nor created again, and no table is cleaned.             *)
(***************************************************************************)
SessionOf(key) == ExtInfo(key, ClientAddr4, FALSE, TwoAllowed)

TwoSessions ==
    LET fetched == FetchRuleTable([s \in Servers |-> 0], <<>>, "s1")
        r1 == InsertIngressBody(fetched.heap, BootstrappedFirewall, fetched.ref,
                                SessionOf("c1"), 0)
    IN InsertIngressBody(r1.heap, r1.fw, fetched.ref, SessionOf("c2"), 0)

InitSessions ==
    /\ ingRules = [s \in Servers |-> IF s = "s1" THEN 1 ELSE 0]
    /\ heap = TwoSessions.heap
    /\ fw = TwoSessions.fw
    /\ panicked = FALSE
    /\ faulty = FALSE
    /\ nops = 0
    /\ last = NoOp
    /\ pc = [p \in Procs |-> "idle"]
    /\ loc = [p \in Procs |-> NoOp]
    /\ done = [p \in Procs |-> <<>>]
    /\ mux = 0

NextSessions ==
    \/ AddIngressRoutingRule
    \/ InsertIngressRoutingRules
    \/ RemoveRoutingRules
    \/ DeleteRoutingRule

SpecSessions == InitSessions /\ [][NextSessions]_vars

(***************************************************************************)
(* The same caller after CreateChains, no table stored yet, invoking the   *)
(* operations that change the tables only; no call fails for outside       *)
(* reasons.                                                                *)
(***************************************************************************)
InitTables == InitCommon /\ fw = BootstrappedFirewall /\ faulty = FALSE

SpecTables == InitTables /\ [][NextSessions]_vars


(***************************************************************************)
(* Concurrent callers.  Every operation on a table takes the lock three    *)
(* times: in FetchRuleTable, for its own body, and in the deferred         *)
(* SaveRules, which runs after the body's deferred Unlock.  What runs      *)
(* under one holding of the lock is one step; other callers' steps may     *)
(* come between the three.                                                 *)
(***************************************************************************)
ConcServer == "s1"

ConcSession(key) == ExtInfo(key, ClientAddr4, FALSE, << PeerInfo("p1", PeerAddr4, TRUE) >>)

\* the operations the concurrent callers invoke
ConcOps ==
    { [NoOp EXCEPT !.op = "InsertIngressRoutingRules", !.server = ConcServer,
                   !.client = c, !.extinfo = ConcSession(c)] : c \in ClientKeys }
    \cup { [NoOp EXCEPT !.op = "RemoveRoutingRules", !.server = ConcServer,
                        !.client = c] : c \in ClientKeys }
    \cup { [NoOp EXCEPT !.op = "AddIngressRoutingRule", !.server = ConcServer,
                        !.client = "c1", !.peer = "p2",
                        !.extinfo = PeerInfo("p2", PeerAddr4, TRUE)] }
    \cup { [NoOp EXCEPT !.op = "DeleteRoutingRule", !.server = ConcServer,
                        !.client = "c1", !.peer = "p1"] }

\* the caller enters the operation, which calls FetchRuleTable
Invoke(p) ==
    /\ ~panicked /\ nops < MaxConcOps
    /\ pc[p] = "idle"
    /\ \E op \in ConcOps :
          LET fetched == FetchRuleTable(ingRules, heap, op.server)
          IN /\ heap' = fetched.heap
             /\ loc' = [loc EXCEPT ![p] = [op EXCEPT !.ref = fetched.ref]]
    /\ pc' = [pc EXCEPT ![p] = "body"]
    /\ nops' = nops + 1
    /\ UNCHANGED <<ingRules, fw, panicked, faulty, last, done, mux>>

\* what the operation of loc[p] does under the lock
BodyOf(op, order, failIdx) ==
    CASE op.op = "InsertIngressRoutingRules" ->
            InsertIngressBody(heap, fw, op.ref, op.extinfo, failIdx)
      [] op.op = "AddIngressRoutingRule" ->
            AddIngressBody(heap, fw, op.ref, op.client, op.extinfo, failIdx)
      [] op.op = "RemoveRoutingRules" ->
            RemoveRoutingBody(heap, fw, op.ref, op.client, order, failIdx)
      [] op.op = "DeleteRoutingRule" ->
            DeleteRoutingBody(heap, fw, op.ref, op.client, op.peer, failIdx)

\* the operation's body, from mux.Lock() to the deferred mux.Unlock()
Critical(p) ==
    /\ ~panicked
    /\ pc[p] = "body"
    /\ \E failIdx \in FailChoices :
        \E order \in IF loc[p].op = "RemoveRoutingRules"
                     THEN RangeOrders(heap[loc[p].ref], loc[p].client) ELSE {<<>>} :
          LET r == BodyOf(loc[p], order, failIdx)
          IN /\ heap' = r.heap
             /\ fw' = r.fw
             /\ loc' = [loc EXCEPT ![p].err = r.err, ![p].calls = r.calls,
                                   ![p].panic = r.panic]
    /\ pc' = [pc EXCEPT ![p] = "save"]
    /\ UNCHANGED <<ingRules, panicked, faulty, nops, last, done, mux>>

\* the deferred SaveRules(server, ingressTable, ruleTable), then the return; a
\* panic of the body goes on unwinding after it
DeferredSave(p) ==
    /\ ~panicked
    /\ pc[p] = "save"
    /\ ingRules' = SaveRules(ingRules, loc[p].server, loc[p].ref)
    /\ panicked' = loc[p].panic
    /\ done' = [done EXCEPT ![p] = Append(@, loc[p])]
    /\ loc' = [loc EXCEPT ![p] = NoOp]
    /\ pc' = [pc EXCEPT ![p] = "idle"]
    /\ UNCHANGED <<heap, fw, faulty, nops, last, mux>>

NextConc == \E p \in Procs : Invoke(p) \/ Critical(p) \/ DeferredSave(p)

SpecConc == Init /\ [][NextConc]_vars

(***************************************************************************)
(* Concurrent callers with the mutex followed.  FetchRuleTable and         *)
(* SaveRules lock and unlock within themselves: each is one step that      *)
(* waits for the mutex.  The body is two steps: mux.Lock(), and the rest   *)
(* up to the deferred mux.Unlock().  Deferred calls run last registered    *)
(* first: the Unlock, registered after the SaveRules, runs before it.      *)
(* CreateChains and FlushAll neither fetch nor save; CleanRoutingRules     *)
(* fetches and does not save.                                              *)
(***************************************************************************)
\* the operations the callers invoke: one for each way an operation returns
LockOps ==
    { [NoOp EXCEPT !.op = "InsertIngressRoutingRules", !.server = ConcServer,
                   !.client = "c1", !.extinfo = ExtInfo("c1", a, FALSE, ConcSession("c1").Peers)] :
        a \in {ClientAddr4, NilAddr} }
    \cup { [NoOp EXCEPT !.op = "RemoveRoutingRules", !.server = ConcServer, !.client = "c1"],
           [NoOp EXCEPT !.op = "DeleteRoutingRule", !.server = ConcServer,
                        !.client = "c1", !.peer = "p1"],
           [NoOp EXCEPT !.op = "AddIngressRoutingRule", !.server = ConcServer,
                        !.client = "c2", !.peer = "p2",
                        !.extinfo = PeerInfo("p2", PeerAddr4, TRUE)],
           [NoOp EXCEPT !.op = "CleanRoutingRules", !.server = ConcServer],
           [NoOp EXCEPT !.op = "FlushAll"] }

Fetches(op) == op.op \notin {"CreateChains", "FlushAll"}

Saves(op) == op.op \notin {"CreateChains", "FlushAll", "CleanRoutingRules"}

\* the mutex after the body's deferred i.mux.Unlock()
DeferredUnlock(holder) == 0

\* the caller enters an operation
LockCall(p) ==
    /\ ~panicked /\ nops < MaxConcOps
    /\ pc[p] = "idle"
    /\ \E op \in LockOps :
          /\ loc' = [loc EXCEPT ![p] = op]
          /\ pc' = [pc EXCEPT ![p] = IF Fetches(op) THEN "toFetch" ELSE "toLock"]
    /\ nops' = nops + 1
    /\ UNCHANGED <<ingRules, heap, fw, panicked, faulty, last, done, mux>>

\* i.FetchRuleTable(server, ingressTable): Lock, read, deferred Unlock
LockFetch(p) ==
    /\ ~panicked
    /\ pc[p] = "toFetch"
    /\ mux = 0
    /\ LET fetched == FetchRuleTable(ingRules, heap, loc[p].server)
       IN /\ heap' = fetched.heap
          /\ loc' = [loc EXCEPT ![p].ref = fetched.ref]
    /\ pc' = [pc EXCEPT ![p] = "toLock"]
    /\ UNCHANGED <<ingRules, fw, panicked, faulty, nops, last, done, mux>>

\* i.mux.Lock() of the operation's body
LockAcquire(p) ==
    /\ ~panicked
    /\ pc[p] = "toLock"
    /\ mux = 0
    /\ mux' = p
    /\ pc' = [pc EXCEPT ![p] = "locked"]
    /\ UNCHANGED <<ingRules, heap, fw, panicked, faulty, nops, last, loc, done>>

\* what the operation of loc[p] does under the lock
LockBodyOf(op, order, dels, failIdx) ==
    IF op.op = "FlushAll"
    THEN LET r == FlushAllBody(fw, failIdx)
         IN [heap |-> heap, fw |-> r.fw, calls |-> r.calls, err |-> r.err, panic |-> FALSE]
    ELSE IF op.op = "CleanRoutingRules"
    THEN LET r == CleanRoutingBody(fw, dels, failIdx)
         IN [heap |-> heap, fw |-> r.fw, calls |-> r.calls, err |-> r.err, panic |-> FALSE]
    ELSE BodyOf(op, order, failIdx)

\* the body under the lock, up to its return or panic, and the deferred Unlock; an
\* operation that does not save returns
LockBody(p) ==
    /\ ~panicked
    /\ pc[p] = "locked"
    /\ mux = p
    /\ \E failIdx \in FailChoices :
        \E order \in IF loc[p].op = "RemoveRoutingRules"
                     THEN RangeOrders(heap[loc[p].ref], loc[p].client) ELSE {<<>>} :
         \E dels \in IF loc[p].op = "CleanRoutingRules"
                     THEN CleanOrders(heap[loc[p].ref]) ELSE {<<>>} :
          LET r == LockBodyOf(loc[p], order, dels, failIdx)
          IN /\ heap' = r.heap
             /\ fw' = r.fw
             /\ faulty' = StillFaulty(r.calls)
             /\ loc' = [loc EXCEPT ![p] = IF Saves(loc[p])
                                          THEN [@ EXCEPT !.err = r.err, !.panic = r.panic]
                                          ELSE NoOp]
    /\ mux' = DeferredUnlock(mux)
    /\ pc' = [pc EXCEPT ![p] = IF Saves(loc[p]) THEN "toSave" ELSE "idle"]
    /\ UNCHANGED <<ingRules, panicked, nops, last, done>>

\* the deferred i.SaveRules(...): Lock, store, deferred Unlock; then the operation
\* returns, or its panic goes on
LockSave(p) ==
    /\ ~panicked
    /\ pc[p] = "toSave"
    /\ mux = 0
    /\ ingRules' = SaveRules(ingRules, loc[p].server, loc[p].ref)
    /\ panicked' = loc[p].panic
    /\ loc' = [loc EXCEPT ![p] = NoOp]
    /\ pc' = [pc EXCEPT ![p] = IF loc[p].panic THEN "panicked" ELSE "idle"]
    /\ UNCHANGED <<heap, fw, faulty, nops, last, done, mux>>

\* the steps of a caller that wait for the mutex
LockWait(p) == LockFetch(p) \/ LockAcquire(p) \/ LockSave(p)

NextLock == \E p \in Procs : LockCall(p) \/ LockWait(p) \/ LockBody(p)

InitLock == InitCommon /\ fw = BootstrappedFirewall /\ faulty = TRUE

\* every call of the firewall returns, so a body under the lock reaches its return
BodyReturns(p) == []<>(pc[p] # "locked")

\* a caller that waits for the mutex gets it when it is unlocked again and again
\* (sync.Mutex hands the mutex to a waiter that would starve)
SpecLock ==
    /\ InitLock /\ [][NextLock]_vars
    /\ \A p \in Procs : SF_vars(LockWait(p))
    /\ \A p \in Procs : BodyReturns(p)


(***************************************************************************)
(* Properties                                                              *)
(***************************************************************************)
\* the caller's step is a call of the operation, from invocation to return
Step(op) == nops' = nops + 1 /\ last'.op = op

SameBag(s1, s2) ==
    /\ Len(s1) = Len(s2)
    /\ \A i \in 1..Len(s1) : Occurrences(s1, s1[i]) = Occurrences(s2, s1[i])

\* the <<family, ruleInfo>> of the calls of the given kind, in order
RECURSIVE CallsOfKind(_, _, _)
CallsOfKind(calls, kind, i) ==
    IF i > Len(calls) THEN <<>>
    ELSE (IF calls[i].kind = kind THEN << <<calls[i].fam, calls[i].rule>> >> ELSE <<>>)
            \o CallsOfKind(calls, kind, i + 1)

Inserts(op) == CallsOfKind(op.calls, "Insert", 1)

Removals(op) == CallsOfKind(op.calls, "DeleteIfExists", 1)

\* the rules of a family's chain
ChainOf(f, fam, ri) ==
    IF <<ri.table, ri.chain>> \in DOMAIN f[fam] THEN f[fam][<<ri.table, ri.chain>>] ELSE <<>>

\* C1: when InsertIngressRoutingRules is invoked by two callers for two distinct
\* clients of one server, and nothing but such calls has been invoked, then once both
\* have returned the table stored for the server holds both clients.
C1_ConcurrentSessionsKept ==
    \A p, q \in Procs :
        ( /\ p # q
          /\ pc[p] = "idle" /\ pc[q] = "idle"
          /\ done[p] # <<>> /\ done[q] # <<>>
          /\ \A r \in Procs : \A i \in 1..Len(done[r]) :
                done[r][i].op = "InsertIngressRoutingRules" /\ done[r][i].err = ""
          /\ done[p][Len(done[p])].server = done[q][Len(done[q])].server
          /\ done[p][Len(done[p])].client # done[q][Len(done[q])].client )
        => {done[p][Len(done[p])].client, done[q][Len(done[q])].client}
              \subseteq DOMAIN StoredTable(ingRules, heap, done[p][Len(done[p])].server)

NoCallFailed(op) == \A i \in 1..Len(op.calls) : ~op.calls[i].err

\* the call follows an InsertIngressRoutingRules for the same server and client that
\* returned nil and none of whose inserts failed
AfterSession(op) ==
    /\ last.op = "InsertIngressRoutingRules" /\ last.err = "" /\ NoCallFailed(last)
    /\ Step(op)
    /\ last'.server = last.server /\ last'.client = last.client

\* C2: for a client authorized by InsertIngressRoutingRules with masquerade and a peer
\* list whose entries are all allowed, a following RemoveRoutingRules for the client
\* succeeds, leaves the server's table without an entry for the client, and issues
\* |P| + 2 removal calls, one for each rule that was inserted.
C2_AllowThenRevoke ==
    [][ ( /\ AfterSession("RemoveRoutingRules")
          /\ last.extinfo.Masquerade
          /\ \A i \in 1..Len(last.extinfo.Peers) : last.extinfo.Peers[i].Allow )
        => /\ last'.err = ""
           /\ last.client \notin DOMAIN StoredTable(ingRules', heap', last.server)
           /\ Len(last'.calls) = Len(last.extinfo.Peers) + 2
           /\ SameBag(Removals(last'), Inserts(last)) ]_vars

CustomChains ==
    {<<defaultIpTable, netmakerFilterChain>>, <<defaultNatTable, netmakerNatChain>>}

\* the rules of the custom chains, by family and chain
CustomRules(f) ==
    [fam \in Fams |-> [tc \in CustomChains |->
        IF tc \in DOMAIN f[fam] THEN f[fam][tc] ELSE <<>>]]

\* C3: calling InsertIngressRoutingRules twice in a row with the same arguments
\* leaves each custom chain with the rules, each as many times, that one call leaves,
\* and no rule of the client is present twice.
C3_ReapplyAddsNothing ==
    [][ ( /\ AfterSession("InsertIngressRoutingRules")
          /\ last'.extinfo = last.extinfo )
        => /\ CustomRules(fw') = CustomRules(fw)
           /\ \A i \in 1..Len(Inserts(last')) :
                 LET c == Inserts(last')[i]
                 IN Occurrences(ChainOf(fw', c[1], c[2]), c[2].rule) <= 1 ]_vars

\* the client's entry in the table stored for the server
Entry(ing, h, server, client) == StoredTable(ing, h, server)[client]

HasEntry(ing, h, server, client) == client \in DOMAIN StoredTable(ing, h, server)

\* C4: after a client is authorized with two allowed peers p1 and p2,
\* DeleteRoutingRule(server, c, p1) issues removal calls for exactly the rules recorded
\* under p1, and leaves p2's group and the NAT rules of the client as they were, in the
\* table and in the kernel.
C4_SelectiveRemoval ==
    [][ ( /\ AfterSession("DeleteRoutingRule")
          /\ Len(last.extinfo.Peers) = 2
          /\ last.extinfo.Peers[1].Allow /\ last.extinfo.Peers[2].Allow
          /\ last.extinfo.Peers[1].PeerKey # last.extinfo.Peers[2].PeerKey
          /\ last'.peer = last.extinfo.Peers[1].PeerKey )
        => LET e == Entry(ingRules, heap, last.server, last.client)
               fam == ClientFor(e.isIpv4)
               p2 == last.extinfo.Peers[2].PeerKey
               nat == <<defaultNatTable, netmakerNatChain>>
           IN /\ last'.err = ""
              /\ Removals(last') =
                    [i \in 1..Len(e.rulesMap[last'.peer]) |-> <<fam, e.rulesMap[last'.peer][i]>>]
              /\ Len(last'.calls) = Len(Removals(last'))
              /\ HasEntry(ingRules', heap', last.server, last.client)
              /\ p2 \in DOMAIN Entry(ingRules', heap', last.server, last.client).rulesMap
              /\ Entry(ingRules', heap', last.server, last.client).rulesMap[p2] = e.rulesMap[p2]
              /\ CustomRules(fw')[fam][nat] = CustomRules(fw)[fam][nat]
              /\ \A i \in 1..Len(e.rulesMap[p2]) :
                    Occurrences(ChainOf(fw, fam, e.rulesMap[p2][i]), e.rulesMap[p2][i].rule) > 0
                    => Occurrences(ChainOf(fw', fam, e.rulesMap[p2][i]),
                                   e.rulesMap[p2][i].rule) > 0 ]_vars

\* C5: after a successful DeleteRoutingRule(server, c, p) the entry of c holds no group
\* under p, and a second DeleteRoutingRule(server, c, p) fails with the not-found error.
C5_PairingForgotten ==
    [][ /\ (Step("DeleteRoutingRule") /\ last'.err = "")
            => last'.peer \notin
                  DOMAIN Entry(ingRules', heap', last'.server, last'.client).rulesMap
        /\ ( /\ last.op = "DeleteRoutingRule" /\ last.err = ""
             /\ Step("DeleteRoutingRule")
             /\ last'.server = last.server /\ last'.client = last.client
             /\ last'.peer = last.peer )
            => last'.err = "rules not found" ]_vars

\* C6: when RemoveRoutingRules(server, c) returns, every other client's entry (of the
\* same or of another server) is recorded as before and each rule it records that was
\* in the kernel still is, also when that client has the same rules as c.
C6_OtherClientsKeepRules ==
    [][ Step("RemoveRoutingRules")
        => \A s \in Servers : \A c \in DOMAIN StoredTable(ingRules, heap, s) :
              <<s, c>> # <<last'.server, last'.client>>
              => /\ HasEntry(ingRules', heap', s, c)
                 /\ Entry(ingRules', heap', s, c) = Entry(ingRules, heap, s, c)
                 /\ LET e == Entry(ingRules, heap, s, c)
                    IN \A k \in DOMAIN e.rulesMap : \A i \in 1..Len(e.rulesMap[k]) :
                          Occurrences(ChainOf(fw, ClientFor(e.isIpv4), e.rulesMap[k][i]),
                                      e.rulesMap[k][i].rule) > 0
                          => Occurrences(ChainOf(fw', ClientFor(e.isIpv4), e.rulesMap[k][i]),
                                         e.rulesMap[k][i].rule) > 0 ]_vars

\* the entries of the peer list that are allowed
AllowedEntries(extinfo) == {i \in 1..Len(extinfo.Peers) : extinfo.Peers[i].Allow}

DeniedEntries(extinfo) == (1..Len(extinfo.Peers)) \ AllowedEntries(extinfo)

\* the inserts of the call into the custom filter chain
FilterInserts(op) ==
    SelectSeq(Inserts(op), LAMBDA c : c[2].chain = netmakerFilterChain)

\* every insert into the filter chain is the rule of an allowed entry, there is one
\* for each allowed entry, and none is for the address of an entry that is denied,
\* unless an allowed entry has the address too
NoInsertForDenied(op) ==
    LET x == op.extinfo
    IN /\ Len(FilterInserts(op)) = Cardinality(AllowedEntries(x))
       /\ \A k \in 1..Len(FilterInserts(op)) : \E i \in AllowedEntries(x) :
             FilterInserts(op)[k][2] = AcceptFromToRule(x.ExtPeerAddr, x.Peers[i].PeerAddr)
       /\ \A i \in DeniedEntries(x) :
             (\A j \in AllowedEntries(x) : x.Peers[j].PeerAddr # x.Peers[i].PeerAddr)
             => \A k \in 1..Len(Inserts(op)) :
                   Inserts(op)[k][2] # AcceptFromToRule(x.ExtPeerAddr, x.Peers[i].PeerAddr)

\* C7 as stated: when InsertIngressRoutingRules returns nil, it has issued no insert
\* for an entry of the peer list with allow=false, and the client's entry has no Rule
\* Group under the key of such an entry.
C7_DeniedKeyHasNoGroup ==
    [][ (Step("InsertIngressRoutingRules") /\ last'.err = "")
        => /\ NoInsertForDenied(last')
           /\ \A i \in DeniedEntries(last'.extinfo) :
                 last'.extinfo.Peers[i].PeerKey \notin
                    DOMAIN Entry(ingRules', heap', last'.server, last'.client).rulesMap ]_vars

\* C7: when InsertIngressRoutingRules returns nil, it has issued no insert for an
\* entry of the peer list with allow=false; the client's entry has a Rule Group under
\* the key of such an entry only if an allow=true entry of the list has the key too, or
\* the key is the client's own and masquerade is set; and no group of the entry
\* records the rule of a denied entry.
C7_DenyByDefault ==
    [][ (Step("InsertIngressRoutingRules") /\ last'.err = "")
        => LET x == last'.extinfo
               e == Entry(ingRules', heap', last'.server, last'.client)
           IN /\ NoInsertForDenied(last')
              /\ \A i \in DeniedEntries(x) :
                    /\ x.Peers[i].PeerKey \in DOMAIN e.rulesMap
                        => \/ \E j \in AllowedEntries(x) :
                                 x.Peers[j].PeerKey = x.Peers[i].PeerKey
                           \/ x.Masquerade /\ x.Peers[i].PeerKey = x.ExtPeerKey
                    /\ (\A j \in AllowedEntries(x) :
                            x.Peers[j].PeerAddr # x.Peers[i].PeerAddr)
                        => \A k \in DOMAIN e.rulesMap : \A n \in 1..Len(e.rulesMap[k]) :
                              e.rulesMap[k][n] #
                                 AcceptFromToRule(x.ExtPeerAddr, x.Peers[i].PeerAddr) ]_vars

\* an InsertIngressRoutingRules with an allowed and a denied entry has returned nil,
\* its inserts done, and the client's entry has no group under the denied entry's key
C7_DeniedEntryGiven ==
    /\ last.op = "InsertIngressRoutingRules" /\ last.err = ""
    /\ NoCallFailed(last) /\ Len(last.calls) > 0
    /\ HasEntry(ingRules, heap, last.server, last.client)
    /\ \E i \in DeniedEntries(last.extinfo) :
          last.extinfo.Peers[i].PeerKey \notin
             DOMAIN Entry(ingRules, heap, last.server, last.client).rulesMap
    /\ CustomRules(fw)[ipv4][<<defaultIpTable, netmakerFilterChain>>] # <<>>

\* the tables stored for the servers, as a caller reading them would see them
StoredTables(ing, h) == [s \in Servers |-> StoredTable(ing, h, s)]

\* C8: RemoveRoutingRules for a client the server's table has no entry for returns
\* the not-found error, issues no call, and leaves the kernel and every client's entry
\* as they were; DeleteRoutingRule returns a not-found error and issues no call when
\* the client, or the client's group for the peer, is absent.
C8_NotFoundReported ==
    [][ /\ ( /\ Step("RemoveRoutingRules")
             /\ ~HasEntry(ingRules, heap, last'.server, last'.client) )
            => /\ last'.err = "peer not found"
               /\ last'.calls = <<>>
               /\ fw' = fw
               /\ StoredTables(ingRules', heap') = StoredTables(ingRules, heap)
        /\ ( /\ Step("DeleteRoutingRule")
             /\ ~HasEntry(ingRules, heap, last'.server, last'.client) )
            => /\ last'.err = "peer not found"
               /\ last'.calls = <<>>
               /\ fw' = fw
               /\ StoredTables(ingRules', heap') = StoredTables(ingRules, heap)
        /\ ( /\ Step("DeleteRoutingRule")
             /\ HasEntry(ingRules, heap, last'.server, last'.client)
             /\ last'.peer \notin
                   DOMAIN Entry(ingRules, heap, last'.server, last'.client).rulesMap )
            => /\ last'.err = "rules not found"
               /\ last'.calls = <<>>
               /\ fw' = fw
               /\ StoredTables(ingRules', heap') = StoredTables(ingRules, heap) ]_vars

\* RemoveRoutingRules has returned not-found for a client without entry while another
\* client of the server has one, with its rules in the kernel
C8_AbsentClientRemoved ==
    /\ last.op = "RemoveRoutingRules" /\ last.err = "peer not found"
    /\ ~HasEntry(ingRules, heap, last.server, last.client)
    /\ \E c \in ClientKeys :
          /\ c # last.client
          /\ HasEntry(ingRules, heap, last.server, c)
          /\ DOMAIN Entry(ingRules, heap, last.server, c).rulesMap # {}
    /\ CustomRules(fw)[ipv4][<<defaultIpTable, netmakerFilterChain>>] # <<>>

\* C9: after InsertIngressRoutingRules or AddIngressRoutingRule has returned nil, the
\* isIpv4 of the client's entry selects the client through which each rule of the
\* call was inserted.
C9_FamilyFlagMatchesInserts ==
    ( /\ last.op \in {"InsertIngressRoutingRules", "AddIngressRoutingRule"}
      /\ last.err = ""
      /\ HasEntry(ingRules, heap, last.server, last.client) )
    => \A k \in 1..Len(Inserts(last)) :
          Inserts(last)[k][1] =
             ClientFor(Entry(ingRules, heap, last.server, last.client).isIpv4)

JumpRules == filterNmJumpRules \o natNmJumpRules

\* C10: when no call of the Actuator fails, a CreateChains that follows a CreateChains
\* returns nil and leaves, in each family, the chains and their rules as the first
\* left them: both custom chains, and each jump rule once, in the same order.
C10_CreateChainsIdempotent ==
    [][ ( /\ ~faulty
          /\ last.op = "CreateChains" /\ last.err = ""
          /\ Step("CreateChains") )
        => /\ last'.err = ""
           /\ fw' = fw
           /\ \A fam \in Fams :
                 /\ CustomChains \subseteq DOMAIN fw'[fam]
                 /\ \A i \in 1..Len(JumpRules) :
                       Occurrences(ChainOf(fw', fam, JumpRules[i]), JumpRules[i].rule) = 1 ]_vars

\* CreateChains has returned nil twice in a row, the jump rules in place
C10_CreatedTwice ==
    /\ last.op = "CreateChains" /\ last.after = "CreateChains" /\ last.err = ""
    /\ NoCallFailed(last)
    /\ \A fam \in Fams :
          Occurrences(ChainOf(fw, fam, filterNmJumpRules[1]), filterNmJumpRules[1].rule) > 0

SomeCallFailed(op) == \E i \in 1..Len(op.calls) : op.calls[i].err

\* C11: when a DeleteIfExists of RemoveRoutingRules or DeleteRoutingRule returns an
\* error, the operation returns an error, the failed call is the last it issues, and
\* the client's entry is recorded afterwards as it was before.
C11_RemovalFailureFatal ==
    [][ ( /\ Step("RemoveRoutingRules") \/ Step("DeleteRoutingRule")
          /\ SomeCallFailed(last') )
        => /\ last'.err # ""
           /\ \A i \in 1..Len(last'.calls) : last'.calls[i].err <=> i = Len(last'.calls)
           /\ HasEntry(ingRules', heap', last'.server, last'.client)
           /\ Entry(ingRules', heap', last'.server, last'.client)
                 = Entry(ingRules, heap, last'.server, last'.client) ]_vars

\* the number of rules the client's entry records
RECURSIVE RulesRecorded(_, _)
RulesRecorded(rulesMap, keys) ==
    IF keys = {} THEN 0
    ELSE LET k == CHOOSE k \in keys : TRUE
         IN Len(rulesMap[k]) + RulesRecorded(rulesMap, keys \ {k})

\* RemoveRoutingRules has returned an error after a removal that succeeded and one
\* that failed, with more rules recorded for the client than calls issued
C11_RemovalFailed ==
    /\ last.op = "RemoveRoutingRules" /\ last.err = "remove failed"
    /\ Len(last.calls) = 2 /\ ~last.calls[1].err /\ last.calls[2].err
    /\ HasEntry(ingRules, heap, last.server, last.client)
    /\ LET e == Entry(ingRules, heap, last.server, last.client)
       IN RulesRecorded(e.rulesMap, DOMAIN e.rulesMap) > 2

\* C12: when the address given to InsertIngressRoutingRules or AddIngressRoutingRule
\* is not an IP prefix, the operation returns an error, issues no call, and the kernel
\* and the table of every server are after the call what they were before it.
C12_MalformedAddressRejected ==
    [][ ( \/ Step("InsertIngressRoutingRules") /\ last'.extinfo.ExtPeerAddr = NilAddr
          \/ Step("AddIngressRoutingRule") /\ last'.extinfo.PeerAddr = NilAddr )
        => /\ last'.err = "parse"
           /\ ~panicked'
           /\ last'.calls = <<>>
           /\ fw' = fw
           /\ StoredTables(ingRules', heap') = StoredTables(ingRules, heap) ]_vars

\* InsertIngressRoutingRules has returned the parse error for a client that has an
\* entry with rules
C12_MalformedSessionGiven ==
    /\ last.op = "InsertIngressRoutingRules" /\ last.err = "parse"
    /\ last.extinfo.ExtPeerAddr = NilAddr
    /\ HasEntry(ingRules, heap, last.server, last.client)
    /\ DOMAIN Entry(ingRules, heap, last.server, last.client).rulesMap # {}

\* C13: AddIngressRoutingRule with an address that parses, the custom filter chain of
\* the address's family in place, returns nil whether or not the client has an entry,
\* issues one Insert, which puts the accept rule at position 1 of that chain, and
\* leaves in the server's stored table a group of exactly that rule for the pairing.
C13_AuthorizePeerRecorded ==
    [][ ( /\ Step("AddIngressRoutingRule")
          /\ ~ParsePrefix(last'.extinfo.PeerAddr).err
          /\ <<defaultIpTable, netmakerFilterChain>> \in
                DOMAIN fw[ClientFor(~UnmapIs6(ParsePrefix(last'.extinfo.PeerAddr)))] )
        => LET fam == ClientFor(~UnmapIs6(ParsePrefix(last'.extinfo.PeerAddr)))
               ri == AcceptToRule(last'.extinfo.PeerAddr)
           IN /\ ~panicked'
              /\ last'.err = ""
              /\ Inserts(last') = << <<fam, ri>> >>
              /\ Len(last'.calls) = 1
              /\ ChainOf(fw', fam, ri)[1] = ri.rule
              /\ HasEntry(ingRules', heap', last'.server, last'.client)
              /\ LET e == Entry(ingRules', heap', last'.server, last'.client)
                 IN /\ last'.peer \in DOMAIN e.rulesMap
                    /\ e.rulesMap[last'.peer] = <<ri>> ]_vars

\* the rule is in its chain in the kernel, through the client isIpv4 selects
InKernel(f, isIpv4, ri) == Occurrences(ChainOf(f, ClientFor(isIpv4), ri), ri.rule) > 0

\* C14: after CreateChains and any sequence of InsertIngressRoutingRules,
\* AddIngressRoutingRule, RemoveRoutingRules and DeleteRoutingRule in which no call
\* fails, every rule the stored tables record is in its chain of the family the
\* entry's isIpv4 selects.
C14_TableImpliesFirewall ==
    \A s \in Servers : \A c \in DOMAIN StoredTable(ingRules, heap, s) :
        LET e == Entry(ingRules, heap, s, c)
        IN \A k \in DOMAIN e.rulesMap : \A i \in 1..Len(e.rulesMap[k]) :
              InKernel(fw, e.isIpv4, e.rulesMap[k][i])

\* the places <<server, client, peer key, index>> where the stored tables record a rule
Records(ing, h) ==
    UNION { UNION { UNION { { <<s, c, k, i>> :
                                i \in 1..Len(Entry(ing, h, s, c).rulesMap[k]) } :
                            k \in DOMAIN Entry(ing, h, s, c).rulesMap } :
                    c \in DOMAIN StoredTable(ing, h, s) } :
            s \in Servers }

\* how many times the stored tables record the rule for the family
RecordedCount(ing, h, fam, ri) ==
    Cardinality({ x \in Records(ing, h) :
                    /\ ClientFor(Entry(ing, h, x[1], x[2]).isIpv4) = fam
                    /\ Entry(ing, h, x[1], x[2]).rulesMap[x[3]][x[4]] = ri })

\* the rule is one addJumpRules appends to the chain
StaticRule(tc, rule) ==
    \E j \in 1..Len(JumpRules) :
        /\ <<JumpRules[j].table, JumpRules[j].chain>> = tc
        /\ JumpRules[j].rule = rule

\* C15: after CreateChains and any sequence of InsertIngressRoutingRules,
\* AddIngressRoutingRule, RemoveRoutingRules and DeleteRoutingRule that return and
\* in which no call fails, each rule of a custom chain that addJumpRules did not
\* append is recorded in the stored tables, for the chain's family, at least as many
\* times as the chain holds it.
C15_FirewallImpliesTable ==
    ~panicked =>
    \A fam \in Fams : \A tc \in CustomChains \cap DOMAIN fw[fam] :
        \A i \in 1..Len(fw[fam][tc]) :
            ~StaticRule(tc, fw[fam][tc][i])
            => Occurrences(fw[fam][tc], fw[fam][tc][i])
                  <= RecordedCount(ingRules, heap, fam,
                                   [rule |-> fw[fam][tc][i], table |-> tc[1], chain |-> tc[2]])

DropRule == filterNmJumpRules[2].rule

ReturnRule == filterNmJumpRules[3].rule

IsAccept(rule) == Len(rule) >= 2 /\ rule[Len(rule) - 1] = "-j" /\ rule[Len(rule)] = "ACCEPT"

\* the custom filter chain is accept rules, then the DROP rule, then the RETURN rule
AllowBeforeDeny(chain) ==
    /\ Len(chain) >= 2
    /\ chain[Len(chain) - 1] = DropRule
    /\ chain[Len(chain)] = ReturnRule
    /\ \A i \in 1..(Len(chain) - 2) : IsAccept(chain[i])

\* the inserts of the call into the family's custom filter chain that returned nil
FilterInserted(op, fam) ==
    SelectSeq(op.calls, LAMBDA c : /\ c.kind = "Insert" /\ ~c.err /\ c.fam = fam
                                   /\ c.rule.chain = netmakerFilterChain)

\* C16: after CreateChains has returned nil, whatever InsertIngressRoutingRules,
\* AddIngressRoutingRule, RemoveRoutingRules and DeleteRoutingRule are called, each
\* family's custom filter chain holds its accept rules before the DROP rule and the
\* DROP rule before the RETURN rule, and after a call that inserted accept rules the
\* one it inserted last is at position 1.
C16_AllowBeforeDeny ==
    [][ \A fam \in Fams :
          LET chain == CustomRules(fw')[fam][<<defaultIpTable, netmakerFilterChain>>]
              ins == FilterInserted(last', fam)
          IN /\ <<defaultIpTable, netmakerFilterChain>> \in DOMAIN fw'[fam]
             /\ AllowBeforeDeny(chain)
             /\ (nops' = nops + 1 /\ ins # <<>>) => chain[1] = ins[Len(ins)].rule.rule ]_vars

\* AddIngressRoutingRule has put its rule before the accept rules of a session, which
\* are before the DROP rule
C16_AcceptInsertedFirst ==
    /\ last.op = "AddIngressRoutingRule" /\ last.err = ""
    /\ LET chain == CustomRules(fw)[ipv4][<<defaultIpTable, netmakerFilterChain>>]
       IN /\ Len(chain) >= 5
          /\ chain[1] = AcceptToRule(last.extinfo.PeerAddr).rule
          /\ chain[Len(chain) - 1] = DropRule

\* the rules InsertIngressRoutingRules is to insert for the session, in order
BatchOf(extinfo) ==
    LET allowed == SelectSeq(extinfo.Peers, LAMBDA p : p.Allow)
    IN [i \in 1..Len(allowed) |-> AcceptFromToRule(extinfo.ExtPeerAddr, allowed[i].PeerAddr)]
          \o (IF extinfo.Masquerade
              THEN <<MasqSrcRule(extinfo.ExtPeerAddr), MasqDstRule(extinfo.ExtPeerAddr)>>
              ELSE <<>>)

\* C17: when an Insert of InsertIngressRoutingRules fails, the operation has still
\* issued the Insert of every rule of the batch, one for each allowed peer in order
\* and then the two NAT rules if masquerade is set, and it returns nil.
C17_BestEffortApply ==
    [][ (Step("InsertIngressRoutingRules") /\ SomeCallFailed(last'))
        => /\ last'.err = ""
           /\ Len(last'.calls) = Len(BatchOf(last'.extinfo))
           /\ \A i \in 1..Len(last'.calls) :
                 /\ last'.calls[i].kind = "Insert"
                 /\ last'.calls[i].rule = BatchOf(last'.extinfo)[i] ]_vars

\* InsertIngressRoutingRules has returned nil from a session of two peers with
\* masquerade whose first Insert failed and whose other three did not
C17_FirstInsertFailed ==
    /\ last.op = "InsertIngressRoutingRules" /\ last.err = ""
    /\ Len(last.calls) = 4
    /\ last.calls[1].err
    /\ \A i \in 2..4 : ~last.calls[i].err
    /\ Len(CustomRules(fw)[ipv4][<<defaultNatTable, netmakerNatChain>>]) >= 3

\* C18: the deferred SaveRules of an operation erases no client from the server's
\* stored table but the operation's own: what other operations stored between the
\* operation's FetchRuleTable and its SaveRules is still stored after it.
C18_SaveKeepsOthersUpdates ==
    [][ \A p \in Procs :
          (pc[p] = "save" /\ pc'[p] = "idle")
          => (DOMAIN StoredTable(ingRules, heap, loc[p].server)) \ {loc[p].client}
                \subseteq DOMAIN StoredTable(ingRules', heap', loc[p].server) ]_vars

\* C20: when InsertIngressRoutingRules is called with masquerade and a peer list with
\* an allowed peer whose key is the client's own, and returns nil, the group stored
\* under that key is the peer's filter rule followed by the two NAT rules, and the
\* client's entry records as many rules as the call issued inserts.
C20_CollisionKeepsBookkeeping ==
    [][ ( /\ Step("InsertIngressRoutingRules") /\ last'.err = ""
          /\ last'.extinfo.Masquerade )
        => LET x == last'.extinfo
               e == Entry(ingRules', heap', last'.server, last'.client)
           IN \A i \in AllowedEntries(x) :
                 x.Peers[i].PeerKey = x.ExtPeerKey
                 => /\ x.ExtPeerKey \in DOMAIN e.rulesMap
                    /\ e.rulesMap[x.ExtPeerKey] =
                          << AcceptFromToRule(x.ExtPeerAddr, x.Peers[i].PeerAddr),
                             MasqSrcRule(x.ExtPeerAddr), MasqDstRule(x.ExtPeerAddr) >>
                    /\ RulesRecorded(e.rulesMap, DOMAIN e.rulesMap) = Len(Inserts(last')) ]_vars

\* C19: with two callers and every call of the firewall returning, every operation a
\* caller has entered returns; the mutex is unlocked whenever no caller is inside an
\* operation; and a caller about to run its deferred SaveRules does not hold the mutex.
C19_EveryOperationReturns ==
    /\ [](\A p \in Procs : pc[p] = "toSave" => mux # p)
    /\ []((\A p \in Procs : pc[p] \in {"idle", "panicked"}) => mux = 0)
    /\ \A p \in Procs : (pc[p] # "idle") ~> (pc[p] = "idle")

\* the same, where an operation may also end in the panic of AddIngressRoutingRule
\* (C13), which ends the program: no caller is left waiting for the mutex otherwise
C19_ReturnsUnlessPanicked ==
    /\ [](\A p \in Procs : pc[p] = "toSave" => mux # p)
    /\ []((\A p \in Procs : pc[p] \in {"idle", "panicked"}) => mux = 0)
    /\ \A p \in Procs : (pc[p] # "idle") ~> (pc[p] = "idle" \/ panicked)

\* a caller waits to run its deferred SaveRules while the other holds the mutex
C19_SaveWaitsForMutex ==
    \E p, q \in Procs : p # q /\ pc[p] = "toSave" /\ pc[q] = "locked" /\ mux = q
====
